---- MODULE Spec2Model ----
(***************************************************************************)
(* Model of crypto_trend_scanner.py: the TrendPulse oscillator and its     *)
(* signal classification, get_price_history_with_retries,                  *)
(* send_trading_alert and the execute_market_scan loop.                    *)
(*                                                                         *)
(* Numbers.  The program computes in IEEE doubles; here a price is an      *)
(* integer number of ticks (PriceScale ticks per currency unit) and a wave *)
(* value an integer number of 1/WaveScale oscillator points, every         *)
(* division rounding down.  NaN is one reserved value outside the range of *)
(* every price and wave, and every comparison with it is false, as in      *)
(* IEEE arithmetic.                                                        *)
(***************************************************************************)
EXTENDS Integers, Sequences, FiniteSets

VARIABLES
    price_history,          \* the data frame get_price_history returned / the caller passes
    passed_in,              \* history: the frame as it was when handed to generate_signals
    trend_analyzer,         \* the TrendPulse object's fields
    signal_analysis,        \* what generate_signals did: its result or the exception
    calls,                  \* number of generate_signals calls made (engine specification)
    wave_samples,           \* the primary/secondary samples handed to the classifier
    retry_limit,            \* get_price_history_with_retries: its parameter
    attempt,                \* ... its loop variable
    fetch_state,            \* ... "idle", "running" or "returned"
    http_log,               \* history: the HTTP outcomes the running call has met
    pc,                     \* execute_market_scan: where it stands
    all_assets,             \* ... the list fetch_all_qualifying_assets returned
    index,                  \* ... enumerate(all_assets, 1)
    alerts_dispatched,
    assets_processed,
    long_signals_detected,
    short_signals_detected,
    processing_errors,
    visits,                 \* history: one record per asset the loop has taken up
    run,                    \* number of the scan process
    now,                    \* the clock, in time buckets
    alert_log               \* history: alerts delivered per (symbol, action, time bucket)

engine_vars == <<price_history, passed_in, trend_analyzer, signal_analysis, calls, wave_samples>>

fetch_vars == <<retry_limit, attempt, fetch_state, http_log>>

scan_vars == <<pc, all_assets, index, alerts_dispatched, assets_processed,
               long_signals_detected, short_signals_detected, processing_errors, visits>>

run_vars == <<run, now, alert_log>>

vars == <<engine_vars, fetch_vars, scan_vars, run_vars>>

-----------------------------------------------------------------------------
(* Bounds of the model *)

MaxExtraRows == 1           \* generate_signals is tried on frames of up to MinWindow + MaxExtraRows rows
MaxCalls == 2               \* generate_signals calls on one frame (engine specification)
MaxRetryLimit == 4          \* retry_limit ranges over 0..MaxRetryLimit (fetch specification)
MaxAssets == 2              \* entries of a market page
MaxRuns == 2                \* scan processes in a row
MaxClock == 1               \* time buckets 0..MaxClock

(* Program constants *)

MinWindow == 50             \* len(price_data) < 50 / len(historical_data) < 50
TailRows == 100             \* df.tail(100)
ExtremeLevel == 60          \* <= -60 / >= 60
PlaceholderVolume == 1000   \* df['volume'] = 1000
DefaultRetryLimit == 3      \* retry_limit=3
MinMarketCap == 50000000    \* min_market_cap=50000000
MinVolume24h == 30000000    \* min_volume_24h=30000000
PageLimit == 15             \* if current_page > 15

(* Fixed-point resolution *)

PriceScale == 10 ^ 3        \* ticks per currency unit
WaveScale == 10 ^ 2         \* wave steps per oscillator point

-----------------------------------------------------------------------------
(* NaN and the comparisons of IEEE arithmetic *)

NaN == -(2 ^ 30)

IsNaN(x) == x = NaN

NSub(a, b) == IF IsNaN(a) \/ IsNaN(b) THEN NaN ELSE a - b

NAbs(a) == IF IsNaN(a) THEN NaN ELSE IF a < 0 THEN -a ELSE a

NLt(a, b) == ~IsNaN(a) /\ ~IsNaN(b) /\ a < b

NGt(a, b) == ~IsNaN(a) /\ ~IsNaN(b) /\ a > b

NLe(a, b) == ~IsNaN(a) /\ ~IsNaN(b) /\ a <= b

NGe(a, b) == ~IsNaN(a) /\ ~IsNaN(b) /\ a >= b

-----------------------------------------------------------------------------
(* TrendPulse *)

\* __init__
TrendPulseInit == [channel_length |-> 9, average_length |-> 12, smoothing_length |-> 3]

\* One step of pandas' ewm(span=length, adjust=False).mean(): st.weighted is the running
\* average, st.a / st.b the weight of the old average (1 after an observation, multiplied
\* by 1 - alpha = (length-1)/(length+1) at every step), alpha = 2/(length+1) the weight of
\* the new sample.  A NaN sample leaves the average and only ages its weight; the first
\* observation seeds the average.
EwmStep(st, cur, length) ==
    IF ~IsNaN(st.weighted)
    THEN IF ~IsNaN(cur)
         THEN [weighted |-> IF st.weighted = cur
                            THEN st.weighted
                            ELSE st.weighted
                                 + ((cur - st.weighted) * 2 * st.b)
                                   \div (st.a * (length - 1) + 2 * st.b),
               a |-> 1, b |-> 1]
         ELSE [weighted |-> st.weighted, a |-> st.a * (length - 1), b |-> st.b * (length + 1)]
    ELSE IF ~IsNaN(cur)
         THEN [weighted |-> cur, a |-> st.a, b |-> st.b]
         ELSE st

\* The value of e, handed to F: an operator that uses a series many times gets it
\* computed once
ByValue(e, F(_)) == CHOOSE r \in {F(x) : x \in {e}} : TRUE

\* The recurrence over src[lo..hi] from the state st: the state after src[hi] and the
\* averages at lo..hi.  The range is folded by halves, left half first, which is the
\* left-to-right recurrence with a shallow evaluation.
RECURSIVE EwmRange(_, _, _, _, _)
EwmRange(s, length, st, lo, hi) ==
    IF lo = hi
    THEN ByValue(EwmStep(st, s[lo], length), LAMBDA after :
             [st |-> after, out |-> <<after.weighted>>])
    ELSE ByValue(EwmRange(s, length, st, lo, (lo + hi) \div 2), LAMBDA left :
         ByValue(EwmRange(s, length, left.st, (lo + hi) \div 2 + 1, hi), LAMBDA right :
             [st |-> right.st, out |-> left.out \o right.out]))

exponential_average(src, length) ==
    ByValue(src, LAMBDA s :
        IF Len(s) < 2 THEN s
        ELSE <<s[1]>> \o EwmRange(s, length, [weighted |-> s[1], a |-> 1, b |-> 1],
                                  2, Len(s)).out)

RECURSIVE WindowSum(_, _, _)
WindowSum(src, from, to) ==
    IF from > to THEN 0 ELSE src[from] + WindowSum(src, from + 1, to)

\* rolling(window=length).mean(): no value before a full window, nor over a NaN
simple_average(src, length) ==
    [i \in 1..Len(src) |->
        IF i < length \/ \E j \in (i - length + 1)..i : IsNaN(src[j])
        THEN NaN
        ELSE WindowSum(src, i - length + 1, i) \div length]

\* series.shift(1)
Shift(s) == [i \in 1..Len(s) |-> IF i = 1 THEN NaN ELSE s[i - 1]]

\* Mutant: level-triggered, a crossing is reported wherever the two series differ
detect_crossover_level(series1, series2) ==
    [i \in 1..Len(series1) |->
        NLt(series1[i], series2[i]) \/ NGt(series1[i], series2[i])]

detect_crossover(series1, series2) ==
    LET prev_diff == [i \in 1..Len(series1) |-> NSub(Shift(series1)[i], Shift(series2)[i])]
        curr_diff == [i \in 1..Len(series1) |-> NSub(series1[i], series2[i])]
    IN  [i \in 1..Len(series1) |->
            \/ NLt(prev_diff[i], 0) /\ NGt(curr_diff[i], 0)
            \/ NGt(prev_diff[i], 0) /\ NLt(curr_diff[i], 0)]

\* Mutant: a guarded division that yields 0 where the deviation is 0
MomentumIndex_zero_guard(diff, deviation) ==
    IF IsNaN(diff) \/ IsNaN(deviation)
    THEN NaN
    ELSE IF deviation = 0
         THEN 0
         ELSE IF diff >= 0
              THEN (diff * 200 * WaveScale) \div (3 * deviation)
              ELSE -(((-diff) * 200 * WaveScale) \div (3 * deviation))

\* (price_source - smooth_base) / (0.015 * price_deviation), in wave steps: 0/0 is NaN.
\* A non-zero numerator over a zero deviation (an infinity in pandas) does not arise:
\* the deviation is an average that has just taken in the numerator's absolute value.
MomentumIndex(diff, deviation) ==
    IF IsNaN(diff) \/ IsNaN(deviation) \/ deviation = 0
    THEN NaN
    ELSE IF diff >= 0
         THEN (diff * 200 * WaveScale) \div (3 * deviation)
         ELSE -(((-diff) * 200 * WaveScale) \div (3 * deviation))

\* calculate_trend_waves, the two waves
TrendWaves(price_source, ch_len, avg_len, smooth_len) ==
    ByValue(exponential_average(price_source, ch_len), LAMBDA smooth_base :
    ByValue(exponential_average(
                [i \in 1..Len(price_source) |-> NAbs(NSub(price_source[i], smooth_base[i]))],
                ch_len), LAMBDA price_deviation :
    ByValue([i \in 1..Len(price_source) |->
                MomentumIndex(NSub(price_source[i], smooth_base[i]), price_deviation[i])],
            LAMBDA momentum_index :
    ByValue(exponential_average(momentum_index, avg_len), LAMBDA primary_wave :
    ByValue(simple_average(primary_wave, smooth_len), LAMBDA secondary_wave :
        [deviation |-> price_deviation, momentum |-> momentum_index,
         primary |-> primary_wave, secondary |-> secondary_wave])))))

\* calculate_trend_waves, the signal conditions over the two waves
SignalConditions(primary_wave, secondary_wave) ==
    [primary |-> primary_wave,
     secondary |-> secondary_wave,
     extreme_low |-> [i \in 1..Len(primary_wave) |->
                         NLe(primary_wave[i], -ExtremeLevel * WaveScale)
                         /\ NLe(secondary_wave[i], -ExtremeLevel * WaveScale)],
     extreme_high |-> [i \in 1..Len(primary_wave) |->
                          NGe(secondary_wave[i], ExtremeLevel * WaveScale)
                          /\ NGe(primary_wave[i], ExtremeLevel * WaveScale)],
     cross_detected |-> detect_crossover(primary_wave, secondary_wave),
     bullish_cross |-> [i \in 1..Len(primary_wave) |-> NGt(primary_wave[i], secondary_wave[i])],
     bearish_cross |-> [i \in 1..Len(primary_wave) |-> NLt(primary_wave[i], secondary_wave[i])]]

calculate_trend_waves(price_source, ch_len, avg_len, smooth_len) ==
    ByValue(TrendWaves(price_source, ch_len, avg_len, smooth_len), LAMBDA w :
        SignalConditions(w.primary, w.secondary))

\* generate_signals, the two signal series
LongSignal(waves) ==
    [i \in 1..Len(waves.primary) |->
        waves.cross_detected[i] /\ waves.bullish_cross[i] /\ waves.extreme_low[i]]

ShortSignal(waves) ==
    [i \in 1..Len(waves.primary) |->
        waves.cross_detected[i] /\ waves.bearish_cross[i] /\ waves.extreme_high[i]]

\* (high + low + close) / 3
AvgPrice(frame) ==
    [i \in 1..Len(frame.index) |->
        IF IsNaN(frame.data["high"][i]) \/ IsNaN(frame.data["low"][i])
           \/ IsNaN(frame.data["close"][i])
        THEN NaN
        ELSE (frame.data["high"][i] + frame.data["low"][i] + frame.data["close"][i]) \div 3]

\* price_data['avg_price'] = ...: the frame passed in gets the column
WithAvgPrice(frame) ==
    [frame EXCEPT !.data = [c \in DOMAIN frame.data \cup {"avg_price"} |->
                               IF c = "avg_price" THEN AvgPrice(frame) ELSE frame.data[c]]]

Unset == [state |-> "unset", timestamp |-> 0, long_signal |-> FALSE, short_signal |-> FALSE]

\* What generate_signals returns or raises on a frame (calculate_trend_waves is called
\* with its default lengths 9, 12, 3, not the object's fields)
generate_signals(frame) ==
    IF Len(frame.index) < MinWindow
    THEN [state |-> "ValueError", timestamp |-> 0, long_signal |-> FALSE, short_signal |-> FALSE]
    ELSE ByValue(AvgPrice(frame), LAMBDA avg_price :
         ByValue(calculate_trend_waves(avg_price, 9, 12, 3), LAMBDA waves :
             [state |-> "returned",
              timestamp |-> frame.index[Len(frame.index)],
              long_signal |-> LongSignal(waves)[Len(frame.index)],
              short_signal |-> ShortSignal(waves)[Len(frame.index)]]))

\* The frame after the call: the column is added unless the length check raised
FrameAfterSignals(frame) ==
    IF Len(frame.index) < MinWindow THEN frame ELSE WithAvgPrice(frame)

-----------------------------------------------------------------------------
(* Price frames *)

NoFrame == [kind |-> "None", index |-> <<>>, data |-> <<>>]

\* pd.DataFrame(historical_data, columns=[...]), the timestamp as index, the volume
\* column, and tail(100)
RECURSIVE LastRows(_, _)
LastRows(s, n) == IF Len(s) <= n THEN s ELSE LastRows(Tail(s), n)

DataFrameOf(historical_data) ==
    LET rows == LastRows(historical_data, TailRows)
    IN  [kind |-> "DataFrame",
         index |-> [i \in 1..Len(rows) |-> rows[i].timestamp],
         data |-> [c \in {"open", "high", "low", "close", "volume"} |->
                     [i \in 1..Len(rows) |->
                         IF c = "volume" THEN PlaceholderVolume ELSE rows[i][c]]]]

\* A candle list of n rows: the close starts at p0 currency units and moves by inc1
\* units per candle for the first k moves, by inc2 after (sign = -1: downwards); the
\* high and low lie one tick around the close.
ClosePrice(shape, i) ==
    LET moves == i - 1
        first == IF moves < shape.k THEN moves ELSE shape.k
    IN  (shape.p0 + shape.sign * (shape.inc1 * first + shape.inc2 * (moves - first)))
        * PriceScale

Candles(shape) ==
    [i \in 1..shape.n |->
        [timestamp |-> i,
         open |-> ClosePrice(shape, i),
         high |-> ClosePrice(shape, i) + 1,
         low |-> ClosePrice(shape, i) - 1,
         close |-> ClosePrice(shape, i)]]

StartPrice == 10 ^ 3

\* The shapes the engine is run on: around the minimum window every two-phase shape,
\* at the length tail(100) keeps the one-phase ones
Shapes ==
    [n : {0, 1, MinWindow - 1} \cup (MinWindow..(MinWindow + MaxExtraRows)),
     p0 : {StartPrice},
     k : {0, MinWindow - 8, MinWindow - 7, MinWindow - 2, MinWindow - 1},
     inc1 : {0, 1, 10},
     inc2 : {0, 1, 10},
     sign : {1, -1}]
    \cup
    [n : {TailRows},
     p0 : {StartPrice},
     k : {0},
     inc1 : {0},
     inc2 : {0, 1, 10},
     sign : {1, -1}]

-----------------------------------------------------------------------------
(* fetch_all_qualifying_assets *)

Null == 0 - 1               \* a missing market_cap / total_volume

OrZero(x) == IF x = Null THEN 0 ELSE x

\* asset['symbol'].upper()
Upper(symbol) ==
    CASE symbol = "btc" -> "BTC"
      [] symbol = "eth" -> "ETH"
      [] symbol = "usdt" -> "USDT"
      [] symbol = "doge" -> "DOGE"
      [] symbol = "sol" -> "SOL"
      [] symbol = "pepe" -> "PEPE"

excluded_types == {"USDT", "USDC", "DAI", "BUSD", "USDE", "FDUSD", "PYUSD", "TUSD"}

\* One page of /coins/markets, from entry i on: the qualifying assets are appended to
\* acc, and the scan returns at the first entry under the market-cap threshold.
RECURSIVE ScanPage(_, _, _, _)
ScanPage(page_data, i, acc, qualifying_count) ==
    IF i > Len(page_data)
    THEN [returned |-> FALSE, assets |-> acc, qualifying_count |-> qualifying_count]
    ELSE LET asset == page_data[i]
             asset_market_cap == OrZero(asset.market_cap)
             asset_volume == OrZero(asset.total_volume)
             asset_symbol == Upper(asset.symbol)
         IN  IF asset_market_cap >= MinMarketCap /\ asset_volume >= MinVolume24h
             THEN IF asset_symbol \notin excluded_types
                  THEN ScanPage(page_data, i + 1,
                                Append(acc, [symbol |-> asset_symbol,
                                             name |-> asset.name,
                                             market_cap |-> asset_market_cap,
                                             volume_24h |-> asset_volume,
                                             asset_id |-> asset.id]),
                                qualifying_count + 1)
                  ELSE ScanPage(page_data, i + 1, acc, qualifying_count)
             ELSE IF asset_market_cap < MinMarketCap
                  THEN [returned |-> TRUE, assets |-> acc, qualifying_count |-> qualifying_count]
                  ELSE ScanPage(page_data, i + 1, acc, qualifying_count)

\* The page loop; market.pages are the pages the API serves (an empty page after the
\* last), market.fails_at the page whose request raises (0: none).  Any exception
\* makes the function return [].
RECURSIVE FetchPages(_, _, _)
FetchPages(market, current_page, all_qualified_assets) ==
    IF market.fails_at = current_page
    THEN <<>>
    ELSE LET page_data == IF current_page <= Len(market.pages)
                          THEN market.pages[current_page]
                          ELSE <<>>
         IN  IF page_data = <<>>
             THEN all_qualified_assets
             ELSE LET r == ScanPage(page_data, 1, all_qualified_assets, 0)
                  IN  IF r.returned \/ r.qualifying_count = 0 \/ current_page + 1 > PageLimit
                      THEN r.assets
                      ELSE FetchPages(market, current_page + 1, r.assets)

fetch_all_qualifying_assets(market) == FetchPages(market, 1, <<>>)

\* What the market API can list
Coins ==
    {[id |-> "bitcoin", symbol |-> "btc", name |-> "Bitcoin",
      market_cap |-> 20 * MinMarketCap, total_volume |-> 20 * MinVolume24h],
     [id |-> "ethereum", symbol |-> "eth", name |-> "Ethereum",
      market_cap |-> 10 * MinMarketCap, total_volume |-> 10 * MinVolume24h],
     [id |-> "solana", symbol |-> "sol", name |-> "Solana",
      market_cap |-> 8 * MinMarketCap, total_volume |-> 8 * MinVolume24h],
     [id |-> "tether", symbol |-> "usdt", name |-> "Tether",
      market_cap |-> 5 * MinMarketCap, total_volume |-> 30 * MinVolume24h],
     [id |-> "dogecoin", symbol |-> "doge", name |-> "Dogecoin",
      market_cap |-> MinMarketCap, total_volume |-> MinVolume24h - 1],
     [id |-> "pepe", symbol |-> "pepe", name |-> "Pepe",
      market_cap |-> Null, total_volume |-> MinVolume24h]}

\* A page lists no coin twice
PagesOf(len) ==
    {p \in UNION {[1..m -> Coins] : m \in 1..len} :
        \A i \in 1..Len(p), j \in 1..Len(p) : i # j => p[i] # p[j]}

\* The listings the API serves, no coin on two pages, and the page whose request fails
Markets ==
    {[fails_at |-> f, pages |-> ps] :
        f \in {0, 1, 2},
        ps \in {<<>>} \cup {<<p>> : p \in PagesOf(MaxAssets)}
               \cup {pq \in PagesOf(MaxAssets - 1) \X PagesOf(1) :
                        \A i \in 1..Len(pq[1]) : pq[1][i] # pq[2][1]}}

Symbols == {Upper(c.symbol) : c \in Coins}

-----------------------------------------------------------------------------
(* get_price_history_with_retries *)

\* The candle lists the OHLC API serves in the model: a fall that steepens on the 43rd
\* move, its mirror image, a steady rise longer than tail(100) keeps, and a list one
\* short of the minimum.
FallCandles ==
    Candles([n |-> MinWindow, p0 |-> StartPrice, k |-> MinWindow - 8,
             inc1 |-> 1, inc2 |-> 10, sign |-> -1])

RiseCandles ==
    Candles([n |-> MinWindow, p0 |-> StartPrice, k |-> MinWindow - 8,
             inc1 |-> 1, inc2 |-> 10, sign |-> 1])

SteadyCandles ==
    Candles([n |-> TailRows + 1, p0 |-> StartPrice, k |-> 0,
             inc1 |-> 1, inc2 |-> 1, sign |-> 1])

ShortCandles ==
    Candles([n |-> MinWindow - 1, p0 |-> StartPrice, k |-> 0,
             inc1 |-> 1, inc2 |-> 1, sign |-> 1])

\* What one requests.get can meet: an exception, or a response with a status and a body
Responses ==
    {[error |-> TRUE, status_code |-> 0, json |-> <<>>],
     [error |-> FALSE, status_code |-> 429, json |-> <<>>],
     [error |-> FALSE, status_code |-> 500, json |-> <<>>],
     [error |-> FALSE, status_code |-> 200, json |-> <<>>],
     [error |-> FALSE, status_code |-> 200, json |-> ShortCandles],
     [error |-> FALSE, status_code |-> 200, json |-> FallCandles],
     [error |-> FALSE, status_code |-> 200, json |-> RiseCandles],
     [error |-> FALSE, status_code |-> 200, json |-> SteadyCandles]}

OutcomeOf(resp) ==
    IF resp.error THEN "exception"
    ELSE IF resp.status_code = 429 THEN "429"
    ELSE IF resp.status_code >= 400 THEN "error status"
    ELSE IF resp.json = <<>> THEN "empty body"
    ELSE IF Len(resp.json) < MinWindow THEN "short history"
    ELSE "candles"

FailureOutcomes == {"exception", "429", "error status", "empty body", "short history"}

\* Mutant: only an empty body counts as no data
TooShort_empty_only(historical_data) == historical_data = <<>>

\* not historical_data or len(historical_data) < 50
TooShort(historical_data) == historical_data = <<>> \/ Len(historical_data) < MinWindow

\* Mutant: a rate-limited request is retried without using up an attempt
AttemptAfter429_same(a) == a

\* continue, in for attempt in range(retry_limit)
AttemptAfter429(a) == a + 1

\* The state a call starts in: range(retry_limit) is empty for retry_limit <= 0
FetchEntry(limit) == IF limit > 0 THEN "running" ELSE "returned"

\* One pass of the retry loop: one HTTP request and what the function does with it
FetchAttempt(resp) ==
    /\ fetch_state = "running"
    /\ http_log' = Append(http_log, OutcomeOf(resp))
    /\ IF resp.error \/ (resp.status_code # 429 /\ resp.status_code >= 400)
       THEN \* except Exception: give up on the last attempt, else sleep and go on
            IF attempt = retry_limit - 1
            THEN /\ fetch_state' = "returned"
                 /\ price_history' = NoFrame
                 /\ UNCHANGED attempt
            ELSE /\ attempt' = attempt + 1
                 /\ UNCHANGED <<fetch_state, price_history>>
       ELSE IF resp.status_code = 429
            THEN \* sleep 60 s, continue; after the last attempt the loop ends: return None
                 /\ attempt' = AttemptAfter429(attempt)
                 /\ IF AttemptAfter429(attempt) >= retry_limit
                    THEN fetch_state' = "returned" /\ price_history' = NoFrame
                    ELSE UNCHANGED <<fetch_state, price_history>>
            ELSE IF TooShort(resp.json)
                 THEN /\ fetch_state' = "returned"
                      /\ price_history' = NoFrame
                      /\ UNCHANGED attempt
                 ELSE /\ fetch_state' = "returned"
                      /\ price_history' = DataFrameOf(resp.json)
                      /\ UNCHANGED attempt
    /\ UNCHANGED <<retry_limit, passed_in, trend_analyzer, signal_analysis, calls,
                   wave_samples, scan_vars, run_vars>>

-----------------------------------------------------------------------------
(* send_trading_alert *)

\* What a call can meet: the Telegram settings missing, the POST answered 200 or with
\* another status, or an exception anywhere in the function
AlertOutcomes == {"configuration missing", "status 200", "other status", "exception"}

send_trading_alert(outcome) == outcome = "status 200"

-----------------------------------------------------------------------------
(* execute_market_scan *)

NoAlerts == [key \in Symbols \X {"long", "short"} \X (0..MaxClock) |-> 0]

ProcessStart ==
    /\ pc = "start"
    /\ all_assets = <<>>
    /\ index = 0
    /\ alerts_dispatched = 0
    /\ assets_processed = 0
    /\ long_signals_detected = <<>>
    /\ short_signals_detected = <<>>
    /\ processing_errors = <<>>
    /\ visits = <<>>
    /\ price_history = NoFrame
    /\ passed_in = NoFrame
    /\ trend_analyzer = TrendPulseInit
    /\ signal_analysis = Unset
    /\ calls = 0
    /\ wave_samples = <<>>
    /\ retry_limit = DefaultRetryLimit
    /\ attempt = 0
    /\ fetch_state = "idle"
    /\ http_log = <<>>

Init ==
    /\ ProcessStart
    /\ run = 1
    /\ now = 0
    /\ alert_log = NoAlerts

\* Up to the loop: the engine is built and the assets are discovered; with none the
\* function returns
StartScan ==
    /\ pc = "start"
    /\ trend_analyzer' = TrendPulseInit
    /\ \E market \in Markets :
          LET discovered == fetch_all_qualifying_assets(market)
          IN  /\ all_assets' = discovered
              /\ IF discovered = <<>>
                 THEN pc' = "done" /\ UNCHANGED index
                 ELSE pc' = "loop" /\ index' = 1
    /\ alerts_dispatched' = 0
    /\ assets_processed' = 0
    /\ long_signals_detected' = <<>>
    /\ short_signals_detected' = <<>>
    /\ processing_errors' = <<>>
    /\ UNCHANGED <<price_history, passed_in, signal_analysis, calls, wave_samples,
                   fetch_vars, visits, run_vars>>

Visit(asset) ==
    [asset_id |-> asset.asset_id, symbol |-> asset.symbol, fetched |-> "pending",
     only_failures |-> FALSE, analysis |-> "not called", sends |-> 0,
     direction |-> "none", delivered |-> FALSE]

Current == all_assets[index]

Noted(field, value) == [visits EXCEPT ![Len(visits)][field] = value]

\* The loop takes up the next asset and calls get_price_history_with_retries
NextAsset ==
    /\ pc = "loop"
    /\ index <= Len(all_assets)
    /\ visits' = Append(visits, Visit(Current))
    /\ retry_limit' = DefaultRetryLimit
    /\ attempt' = 0
    /\ http_log' = <<>>
    /\ fetch_state' = FetchEntry(DefaultRetryLimit)
    /\ pc' = "fetch"
    /\ UNCHANGED <<engine_vars, all_assets, index, alerts_dispatched, assets_processed,
                   long_signals_detected, short_signals_detected, processing_errors,
                   run_vars>>

\* Mutant: missing data ends the loop
AfterFetch_break ==
    /\ pc = "fetch"
    /\ fetch_state = "returned"
    /\ fetch_state' = "idle"
    /\ attempt' = 0
    /\ http_log' = <<>>
    /\ LET seen == [Noted("fetched", IF price_history = NoFrame THEN "None" ELSE "DataFrame")
                      EXCEPT ![Len(visits)].only_failures =
                                 \A i \in 1..Len(http_log) : http_log[i] \in FailureOutcomes]
       IN  visits' = seen
    /\ IF price_history = NoFrame
       THEN /\ processing_errors' = Append(processing_errors, <<"Data unavailable", Current.symbol>>)
            /\ pc' = "summary"
            /\ UNCHANGED index
       ELSE /\ pc' = "analyze"
            /\ UNCHANGED <<processing_errors, index>>
    /\ UNCHANGED <<engine_vars, retry_limit, all_assets, alerts_dispatched, assets_processed,
                   long_signals_detected, short_signals_detected, run_vars>>

\* get_price_history_with_retries has returned: without data the asset is noted as
\* unavailable and the loop continues, else the analysis follows
AfterFetch ==
    /\ pc = "fetch"
    /\ fetch_state = "returned"
    /\ fetch_state' = "idle"
    /\ attempt' = 0
    /\ http_log' = <<>>
    /\ LET seen == [Noted("fetched", IF price_history = NoFrame THEN "None" ELSE "DataFrame")
                      EXCEPT ![Len(visits)].only_failures =
                                 \A i \in 1..Len(http_log) : http_log[i] \in FailureOutcomes]
       IN  visits' = seen
    /\ IF price_history = NoFrame
       THEN /\ processing_errors' = Append(processing_errors, <<"Data unavailable", Current.symbol>>)
            /\ pc' = "loop"
            /\ index' = index + 1
       ELSE /\ pc' = "analyze"
            /\ UNCHANGED <<processing_errors, index>>
    /\ UNCHANGED <<engine_vars, retry_limit, all_assets, alerts_dispatched, assets_processed,
                   long_signals_detected, short_signals_detected, run_vars>>

\* trend_analyzer.generate_signals(price_history); an exception lands in the asset's
\* except clause, which notes it and continues
Analyze ==
    /\ pc = "analyze"
    /\ LET result == generate_signals(price_history)
       IN  /\ signal_analysis' = result
           /\ IF result.state = "ValueError"
              THEN /\ processing_errors' =
                         Append(processing_errors,
                                <<Current.symbol, "Insufficient historical data">>)
                   /\ visits' = Noted("analysis", "ValueError")
                   /\ pc' = "loop"
                   /\ index' = index + 1
                   /\ UNCHANGED assets_processed
              ELSE /\ assets_processed' = assets_processed + 1
                   /\ visits' = Noted("analysis", "returned")
                   /\ IF result.long_signal \/ result.short_signal
                      THEN pc' = "alert" /\ UNCHANGED index
                      ELSE pc' = "loop" /\ index' = index + 1
                   /\ UNCHANGED processing_errors
    /\ price_history' = FrameAfterSignals(price_history)
    /\ UNCHANGED <<passed_in, trend_analyzer, calls, wave_samples, fetch_vars, all_assets,
                   alerts_dispatched, long_signals_detected, short_signals_detected, run_vars>>

\* Mutant: the alert is counted whether or not it was delivered
Dispatched_always(sent, n) == n + 1

\* if send_trading_alert(...): alerts_dispatched += 1
Dispatched(sent, n) == IF sent THEN n + 1 ELSE n

\* The signal branch: long before short, one send_trading_alert call, counted and
\* listed when it returned True
SendAlert(outcome) ==
    /\ pc = "alert"
    /\ LET direction == IF signal_analysis.long_signal THEN "long" ELSE "short"
           sent == send_trading_alert(outcome)
           key == <<Current.symbol, direction, now>>
       IN  /\ alerts_dispatched' = Dispatched(sent, alerts_dispatched)
           /\ long_signals_detected' =
                  IF sent /\ direction = "long"
                  THEN Append(long_signals_detected, Current.symbol)
                  ELSE long_signals_detected
           /\ short_signals_detected' =
                  IF sent /\ direction = "short"
                  THEN Append(short_signals_detected, Current.symbol)
                  ELSE short_signals_detected
           /\ alert_log' = IF sent THEN [alert_log EXCEPT ![key] = @ + 1] ELSE alert_log
           /\ visits' = [visits EXCEPT ![Len(visits)].sends = @ + 1,
                                       ![Len(visits)].direction = direction,
                                       ![Len(visits)].delivered = sent]
    /\ pc' = "loop"
    /\ index' = index + 1
    /\ UNCHANGED <<engine_vars, fetch_vars, all_assets, assets_processed, processing_errors,
                   run, now>>

\* The list is exhausted: the execution summary is printed
Summary ==
    /\ pc = "loop"
    /\ index > Len(all_assets)
    /\ pc' = "summary"
    /\ UNCHANGED <<engine_vars, fetch_vars, all_assets, index, alerts_dispatched,
                   assets_processed, long_signals_detected, short_signals_detected,
                   processing_errors, visits, run_vars>>

\* The summary message to Telegram, whatever becomes of it, and the function returns
Finish ==
    /\ pc = "summary"
    /\ pc' = "done"
    /\ UNCHANGED <<engine_vars, fetch_vars, all_assets, index, alerts_dispatched,
                   assets_processed, long_signals_detected, short_signals_detected,
                   processing_errors, visits, run_vars>>

ScanStep ==
    \/ StartScan
    \/ NextAsset
    \/ \E resp \in Responses : pc = "fetch" /\ FetchAttempt(resp)
    \/ AfterFetch
    \/ Analyze
    \/ \E outcome \in AlertOutcomes : SendAlert(outcome)
    \/ Summary
    \/ Finish

\* The next scan process starts from scratch; only what was delivered stays delivered
NewRun ==
    /\ pc = "done"
    /\ run < MaxRuns
    /\ run' = run + 1
    /\ pc' = "start"
    /\ all_assets' = <<>>
    /\ index' = 0
    /\ alerts_dispatched' = 0
    /\ assets_processed' = 0
    /\ long_signals_detected' = <<>>
    /\ short_signals_detected' = <<>>
    /\ processing_errors' = <<>>
    /\ visits' = <<>>
    /\ price_history' = NoFrame
    /\ signal_analysis' = Unset
    /\ UNCHANGED <<passed_in, trend_analyzer, calls, wave_samples, fetch_vars, now, alert_log>>

\* Time passes into the next bucket
Tick ==
    /\ now < MaxClock
    /\ now' = now + 1
    /\ UNCHANGED <<engine_vars, fetch_vars, scan_vars, run, alert_log>>

\* One scan process
Next == ScanStep

Spec == Init /\ [][Next]_vars

\* A running scan process takes its next step
FairSpec == Spec /\ WF_vars(ScanStep)

\* Scan processes one after another, as a scheduler starts them, while time passes
NextRuns == ScanStep \/ Tick \/ NewRun

SpecRuns == Init /\ [][NextRuns]_vars

-----------------------------------------------------------------------------
(* Fetch specification: one get_price_history_with_retries call *)

InitFetch ==
    /\ retry_limit \in 0..MaxRetryLimit
    /\ attempt = 0
    /\ fetch_state = FetchEntry(retry_limit)
    /\ http_log = <<>>
    /\ price_history = NoFrame
    /\ passed_in = NoFrame
    /\ trend_analyzer = TrendPulseInit
    /\ signal_analysis = Unset
    /\ calls = 0
    /\ wave_samples = <<>>
    /\ pc = "fetch"
    /\ all_assets = <<>>
    /\ index = 0
    /\ alerts_dispatched = 0
    /\ assets_processed = 0
    /\ long_signals_detected = <<>>
    /\ short_signals_detected = <<>>
    /\ processing_errors = <<>>
    /\ visits = <<>>
    /\ run = 1
    /\ now = 0
    /\ alert_log = NoAlerts

NextFetch == \E resp \in Responses : FetchAttempt(resp)

SpecFetch == InitFetch /\ [][NextFetch]_vars

-----------------------------------------------------------------------------
(* Engine specification: generate_signals on a frame *)

\* Nothing of the scan is running
OtherIdle ==
    /\ retry_limit = DefaultRetryLimit
    /\ attempt = 0
    /\ fetch_state = "idle"
    /\ http_log = <<>>
    /\ pc = "engine"
    /\ all_assets = <<>>
    /\ index = 0
    /\ alerts_dispatched = 0
    /\ assets_processed = 0
    /\ long_signals_detected = <<>>
    /\ short_signals_detected = <<>>
    /\ processing_errors = <<>>
    /\ visits = <<>>
    /\ run = 1
    /\ now = 0
    /\ alert_log = NoAlerts

InitEngine ==
    /\ \E shape \in Shapes : price_history = DataFrameOf(Candles(shape))
    /\ passed_in = price_history
    /\ trend_analyzer = TrendPulseInit
    /\ signal_analysis = Unset
    /\ calls = 0
    /\ wave_samples = <<>>
    /\ OtherIdle

GenerateSignals ==
    /\ calls < MaxCalls
    /\ calls' = calls + 1
    /\ passed_in' = IF calls = 0 THEN price_history ELSE passed_in
    /\ signal_analysis' = generate_signals(price_history)
    /\ price_history' = FrameAfterSignals(price_history)
    /\ UNCHANGED <<trend_analyzer, wave_samples, fetch_vars, scan_vars, run_vars>>

NextEngine == GenerateSignals

SpecEngine == InitEngine /\ [][NextEngine]_vars

-----------------------------------------------------------------------------
(* Classifier specification: the signal conditions on two samples of each wave *)

WaveValues ==
    {NaN} \cup {v * WaveScale : v \in {-70, -ExtremeLevel - 1, -ExtremeLevel, -ExtremeLevel + 1,
                                       0, ExtremeLevel - 1, ExtremeLevel, ExtremeLevel + 1, 70}}

InitClassify ==
    /\ \E prev1 \in WaveValues, prev2 \in WaveValues, cur1 \in WaveValues, cur2 \in WaveValues :
          wave_samples = [primary |-> <<prev1, cur1>>, secondary |-> <<prev2, cur2>>]
    /\ price_history = NoFrame
    /\ passed_in = NoFrame
    /\ trend_analyzer = TrendPulseInit
    /\ signal_analysis = Unset
    /\ calls = 0
    /\ OtherIdle

\* The last-row verdict of generate_signals over the given waves
Classify ==
    /\ calls = 0
    /\ calls' = 1
    /\ LET waves == SignalConditions(wave_samples.primary, wave_samples.secondary)
           n == Len(wave_samples.primary)
       IN  signal_analysis' = [state |-> "returned", timestamp |-> 0,
                               long_signal |-> LongSignal(waves)[n],
                               short_signal |-> ShortSignal(waves)[n]]
    /\ UNCHANGED <<price_history, passed_in, trend_analyzer, wave_samples, fetch_vars, scan_vars,
                   run_vars>>

NextClassify == Classify

SpecClassify == InitClassify /\ [][NextClassify]_vars

-----------------------------------------------------------------------------
(* Properties of the engine *)

Called == calls > 0

Rows(frame) == Len(frame.index)

InputWaves == TrendWaves(AvgPrice(passed_in), 9, 12, 3)

StrictlyIncreasing(s) == \A i \in 1..(Len(s) - 1) : s[i] < s[i + 1]

ConstantSeries(s) == \A i \in 1..Len(s) : s[i] = s[1]

ConstantStep(s) == \A i \in 2..(Len(s) - 1) : s[i + 1] - s[i] = s[i] - s[i - 1]

NoShortAnywhere ==
    LET w == InputWaves
    IN  \A i \in 1..Rows(passed_in) : ~ShortSignal(SignalConditions(w.primary, w.secondary))[i]

\* C1 (as claimed): over the last two samples prev1, prev2, cur1, cur2 of the waves,
\* long_signal is reported exactly when prev1 <= prev2, cur1 > cur2 and both current
\* samples are <= -60, short_signal exactly when prev1 >= prev2, cur1 < cur2 and both
\* are >= 60.
C1_SignalsAsSpecified ==
    Called =>
        LET prev1 == wave_samples.primary[1]
            cur1 == wave_samples.primary[2]
            prev2 == wave_samples.secondary[1]
            cur2 == wave_samples.secondary[2]
        IN  /\ signal_analysis.long_signal =
                  (/\ NLe(prev1, prev2) /\ NGt(cur1, cur2)
                   /\ NLe(cur1, -ExtremeLevel * WaveScale)
                   /\ NLe(cur2, -ExtremeLevel * WaveScale))
            /\ signal_analysis.short_signal =
                  (/\ NGe(prev1, prev2) /\ NLt(cur1, cur2)
                   /\ NGe(cur1, ExtremeLevel * WaveScale)
                   /\ NGe(cur2, ExtremeLevel * WaveScale))

\* C4: a NaN wave at the last row gives neither signal and no exception; a constant
\* price series of at least MinWindow rows has deviation 0 and a NaN momentum at every
\* row, and its verdict is neither signal.
C4_NaNGivesNoSignal ==
    (Called /\ Rows(passed_in) >= MinWindow) =>
        LET w == InputWaves
            n == Rows(passed_in)
        IN  /\ (IsNaN(w.primary[n]) \/ IsNaN(w.secondary[n])) =>
                  /\ signal_analysis.state = "returned"
                  /\ ~signal_analysis.long_signal
                  /\ ~signal_analysis.short_signal
            /\ ConstantSeries(AvgPrice(passed_in)) =>
                  /\ \A i \in 1..n : w.deviation[i] = 0 /\ IsNaN(w.momentum[i])
                  /\ IsNaN(w.primary[n])
                  /\ signal_analysis.state = "returned"
                  /\ ~signal_analysis.long_signal
                  /\ ~signal_analysis.short_signal

C4_Witness ==
    /\ Called
    /\ Rows(passed_in) >= MinWindow
    /\ ConstantSeries(AvgPrice(passed_in))
    /\ signal_analysis.state = "returned"

\* C5 (as claimed): on a frame shorter than the minimum window generate_signals does
\* not raise.
C5_ShortInputDoesNotRaise ==
    (Called /\ Rows(passed_in) < MinWindow) => signal_analysis.state = "returned"

\* C6 (as claimed): after a generate_signals call the frame passed in has the columns
\* and values it had, and the TrendPulse object its parameters.
C6_InputUnchanged ==
    Called => price_history = passed_in /\ trend_analyzer = TrendPulseInit

\* C8 (as claimed): on a strictly increasing price series of at least MinWindow rows
\* the short signal holds at no row, and generate_signals does not report it.
C8_IncreasingNeverShort ==
    (Called /\ Rows(passed_in) >= MinWindow /\ StrictlyIncreasing(AvgPrice(passed_in))) =>
        ~signal_analysis.short_signal /\ NoShortAnywhere

\* C8 (amended): on a strictly increasing price series with a constant step, of
\* MinWindow to TailRows rows, the short signal holds at no row and generate_signals
\* does not report it.
C8_LinearRiseNeverShort ==
    (/\ Called /\ Rows(passed_in) >= MinWindow
     /\ StrictlyIncreasing(AvgPrice(passed_in))
     /\ ConstantStep(AvgPrice(passed_in))) =>
        ~signal_analysis.short_signal /\ NoShortAnywhere

\* A linear rise, analysed: both waves in the overbought zone at the last row, the
\* primary below the secondary
C8_Witness ==
    /\ Called /\ Rows(passed_in) >= MinWindow
    /\ StrictlyIncreasing(AvgPrice(passed_in))
    /\ ConstantStep(AvgPrice(passed_in))
    /\ signal_analysis.state = "returned"
    /\ LET w == InputWaves
           n == Rows(passed_in)
       IN  /\ NGe(w.primary[n], ExtremeLevel * WaveScale)
           /\ NGe(w.secondary[n], ExtremeLevel * WaveScale)
           /\ NLt(w.primary[n], w.secondary[n])

-----------------------------------------------------------------------------
(* Properties of the scan *)

DeliveredSymbols(direction) ==
    LET sel == SelectSeq(visits, LAMBDA v : v.delivered /\ v.direction = direction)
    IN  [i \in 1..Len(sel) |-> sel[i].symbol]

OnlyFailures(log) == \A i \in 1..Len(log) : log[i] \in FailureOutcomes

\* C2 (as claimed): across the scans no (symbol, action, time bucket) key has its
\* alert dispatched more than once.
C2_OncePerKey == \A key \in DOMAIN alert_log : alert_log[key] <= 1

\* The assets taken up so far are the first of the list, each once, in list order,
\* and past the loop they are all of them
VisitedInOrder ==
    /\ Len(visits) <= Len(all_assets)
    /\ \A i \in 1..Len(visits) : visits[i].asset_id = all_assets[i].asset_id
    /\ pc = "loop" => Len(visits) = index - 1
    /\ pc \in {"fetch", "analyze", "alert"} => Len(visits) = index
    /\ pc \in {"summary", "done"} => Len(visits) = Len(all_assets)

\* C3: whatever fails for single assets, the loop takes up every asset of the list
\* once, in list order, and from the loop the scan reaches its summary.
C3_ScanCompletes ==
    /\ [](VisitedInOrder)
    /\ (pc = "loop") ~> (pc = "summary")

\* The summary of a scan whose first asset had no data and whose second asset's alert
\* was not delivered
C3_Witness ==
    /\ pc = "summary"
    /\ Len(visits) >= 2
    /\ visits[1].fetched = "None"
    /\ visits[2].sends = 1
    /\ ~visits[2].delivered

\* C7: a call that met only 429s, error statuses, exceptions, empty bodies and short
\* histories returns None, and the scan notes the asset as unavailable and goes on
\* without calling generate_signals or send_trading_alert for it.
C7_NoDataSkips ==
    /\ (fetch_state = "returned" /\ OnlyFailures(http_log)) => price_history = NoFrame
    /\ \A i \in 1..Len(visits) :
          /\ visits[i].only_failures => visits[i].fetched = "None"
          /\ visits[i].fetched = "None" =>
                /\ visits[i].analysis = "not called"
                /\ visits[i].sends = 0
                /\ \E e \in 1..Len(processing_errors) :
                      processing_errors[e] = <<"Data unavailable", visits[i].symbol>>

C7_Witness ==
    /\ pc = "summary"
    /\ Len(visits) >= 2
    /\ \A i \in 1..Len(visits) : visits[i].only_failures /\ visits[i].analysis = "not called"
    /\ Len(processing_errors) = Len(visits)

\* C9: a call makes at most retry_limit requests, every pass of the loop using up one
\* attempt; a server that answers 429 every time gets retry_limit requests and the
\* call returns None; a frame that is returned has 50 to 100 rows.
C9_BoundedRetries ==
    /\ Len(http_log) <= retry_limit
    /\ fetch_state = "running" => attempt < retry_limit /\ Len(http_log) = attempt
    /\ (fetch_state = "returned" /\ \A i \in 1..Len(http_log) : http_log[i] = "429") =>
          price_history = NoFrame /\ Len(http_log) = retry_limit
    /\ price_history # NoFrame =>
          /\ fetch_state = "returned"
          /\ Rows(price_history) >= MinWindow
          /\ Rows(price_history) <= TailRows

C9_Witness ==
    /\ fetch_state = "returned"
    /\ retry_limit = DefaultRetryLimit
    /\ Len(http_log) = DefaultRetryLimit
    /\ \A i \in 1..Len(http_log) : http_log[i] = "429"
    /\ price_history = NoFrame

\* C10: throughout the loop the alert counter equals the two signal lists' lengths,
\* which list exactly the assets whose send_trading_alert call returned True, and
\* is at most the number of analysed assets, itself at most the number taken up; no
\* asset has more than one send_trading_alert call, and none without an analysis.
C10_Counters ==
    /\ alerts_dispatched = Len(long_signals_detected) + Len(short_signals_detected)
    /\ alerts_dispatched <= assets_processed
    /\ assets_processed <= Len(visits)
    /\ long_signals_detected = DeliveredSymbols("long")
    /\ short_signals_detected = DeliveredSymbols("short")
    /\ \A i \in 1..Len(visits) :
          /\ visits[i].sends <= 1
          /\ visits[i].delivered => visits[i].sends = 1
          /\ visits[i].sends = 1 => visits[i].analysis = "returned"

C10_Witness ==
    /\ pc = "summary"
    /\ alerts_dispatched = 1
    /\ assets_processed = 2
    /\ \E i \in 1..Len(visits) : visits[i].sends = 1 /\ ~visits[i].delivered

====
